---- MODULE Spec2Model ----
(***************************************************************************)
(* Model of the voice-call signaling relay in src/main.py.                 *)
(*                                                                         *)
(* The three module-level dictionaries (user_sessions, user_names,         *)
(* active_connections) are shared by every websocket handler.  Handlers    *)
(* are coroutines on one event loop: a handler runs without interruption   *)
(* from one await to the next, so every action below is the code between   *)
(* two consecutive awaits of one handler.                                  *)
(*                                                                         *)
(* Python dictionaries keep insertion order.  user_sessions and user_names *)
(* are modelled as sequences of entries in insertion order.                *)
(* active_connections is iterated across awaits by                         *)
(* broadcast_online_users, so it is modelled with the entry array CPython  *)
(* uses: a deleted entry leaves a dead slot, a new key is appended, and an *)
(* iterator is a position in that array together with the size the         *)
(* dictionary had when the iterator was created.                           *)
(***************************************************************************)
EXTENDS Integers, Sequences, FiniteSets, TLC

\* ---------------------------------------------------------------- bounds
MaxConns == 3
MaxSessions == 2
\* SpecRelay: the connections it opens and the messages it lets the receive
\* loops handle.
MaxRelayConns == 2
MaxHandled == 2

Conns == 1..MaxConns
RelayConns == 1..MaxRelayConns
\* uuid4 session ids are modelled as fresh numbers 1, 2, ...; token 0 is a
\* string that login never issued.
Tokens == 0..MaxSessions

Usernames == {"al", "alice", "bob"}
Passwords == {"pw", "pass1"}
Offers == {"O1", "O2"}

\* None of Python, for user ids and session ids (both start at 1).
None == 0

Min(S) == CHOOSE x \in S : \A y \in S : x <= y

VARIABLES users, user_sessions, user_names, active_connections,
          nextSid, ws, bcast, sent, handled

vars == <<users, user_sessions, user_names, active_connections,
          nextSid, ws, bcast, sent, handled>>

\* ------------------------------------------------------------ users table
hash_password(password) == <<"sha256", password>>

UserRow(username) ==
    LET hits == {i \in 1..Len(users) : users[i].username = username}
    IN IF hits = {} THEN None ELSE Min(hits)

\* user ids a client may name as a call target: the ids the table can
\* assign within these bounds (an id is unknown until its row is inserted).
TargetIds == 1..Cardinality({u \in Usernames : Len(u) >= 3})

\* -------------------------------------------------- insertion-ordered maps
SeqRemove(seq, i) == SubSeq(seq, 1, i - 1) \o SubSeq(seq, i + 1, Len(seq))

UsHas(us, sid) == \E i \in 1..Len(us) : us[i].sid = sid
UsGet(us, sid) ==
    IF UsHas(us, sid)
    THEN us[CHOOSE i \in 1..Len(us) : us[i].sid = sid].uid
    ELSE None
UsDel(us, sid) ==
    IF UsHas(us, sid)
    THEN SeqRemove(us, CHOOSE i \in 1..Len(us) : us[i].sid = sid)
    ELSE us

UnHas(un, uid) == \E i \in 1..Len(un) : un[i].user_id = uid
UnGet(un, uid, default) ==
    IF UnHas(un, uid)
    THEN un[CHOOSE i \in 1..Len(un) : un[i].user_id = uid].username
    ELSE default
UnSet(un, uid, name) ==
    IF UnHas(un, uid)
    THEN [i \in 1..Len(un) |->
            IF un[i].user_id = uid THEN [user_id |-> uid, username |-> name]
            ELSE un[i]]
    ELSE Append(un, [user_id |-> uid, username |-> name])
UnDel(un, uid) ==
    IF UnHas(un, uid)
    THEN SeqRemove(un, CHOOSE i \in 1..Len(un) : un[i].user_id = uid)
    ELSE un

\* active_connections: the entry array; a dead slot is what a deleted entry
\* leaves behind.  With at most MaxConns insertions the array never fills
\* (CPython compacts it only at the sixth insertion).
DeadSlot == [sid |-> None, ws |-> None, live |-> FALSE]
AcHas(ac, sid) == \E i \in 1..Len(ac) : ac[i].live /\ ac[i].sid = sid
AcIndex(ac, sid) == CHOOSE i \in 1..Len(ac) : ac[i].live /\ ac[i].sid = sid
AcGet(ac, sid) == IF AcHas(ac, sid) THEN ac[AcIndex(ac, sid)].ws ELSE None
AcSet(ac, sid, c) ==
    IF AcHas(ac, sid)
    THEN [ac EXCEPT ![AcIndex(ac, sid)].ws = c]
    ELSE Append(ac, [sid |-> sid, ws |-> c, live |-> TRUE])
AcDel(ac, sid) ==
    IF AcHas(ac, sid) THEN [ac EXCEPT ![AcIndex(ac, sid)] = DeadSlot] ELSE ac
AcUsed(ac) == Cardinality({i \in 1..Len(ac) : ac[i].live})

\* ------------------------------------------------------------- Init
NoBcast == [users |-> <<>>, pos |-> 0, len |-> 0, used |-> 0, caller |-> "none"]
NewWs == [pc |-> "idle", session_id |-> None, user_id |-> None,
          username |-> "", alive |-> FALSE, code |-> 0]

\* users.db outlives the process (init_db creates the table only if it is
\* missing): the process starts on a table an earlier run has filled.
InitialUsers ==
    <<[username |-> "alice", password_hash |-> hash_password("pass1")]>>

Init ==
    /\ users = InitialUsers
    /\ user_sessions = <<>>
    /\ user_names = <<>>
    /\ active_connections = <<>>
    /\ nextSid = 1
    /\ ws = [c \in Conns |-> NewWs]
    /\ bcast = [c \in Conns |-> NoBcast]
    /\ sent = <<>>
    /\ handled = <<>>

\* ------------------------------------------------------------- HTTP API
register(username, password) ==
    /\ ~(Len(username) < 3)
    /\ ~(Len(username) > 20)
    /\ ~(Len(password) < 4)
    /\ UserRow(username) = None
    /\ users' = Append(users, [username |-> username,
                               password_hash |-> hash_password(password)])
    /\ sent' = <<>>
    /\ UNCHANGED <<user_sessions, user_names, active_connections, nextSid,
                   ws, bcast>>

login(username, password) ==
    LET user_id == UserRow(username) IN
    /\ user_id # None
    /\ users[user_id].password_hash = hash_password(password)
    /\ nextSid <= MaxSessions
    /\ user_sessions' = Append(user_sessions, [sid |-> nextSid, uid |-> user_id])
    /\ user_names' = UnSet(user_names, user_id, users[user_id].username)
    /\ nextSid' = nextSid + 1
    /\ sent' = <<>>
    /\ UNCHANGED <<users, active_connections, ws, bcast>>

\* ------------------------------------------------- find_user_session
find_user_session(us, ac, user_id) ==
    LET hits == {i \in 1..Len(us) : us[i].uid = user_id /\ AcHas(ac, us[i].sid)}
    IN IF hits = {} THEN None ELSE us[Min(hits)].sid

\* ---------------------------------------------- broadcast_online_users
\* The list comprehension over user_names.items().
online_users(un) == un

OnlineUsersFrame(snapshot, user_id) ==
    [type |-> "online_users", users |-> snapshot, current_user_id |-> user_id]

\* A send on a channel whose transport is gone either raises
\* WebSocketDisconnect, raises another exception, or is dropped silently,
\* depending on the server library; on a live channel it is delivered.
SendOutcomes(w, c) ==
    IF w[c].alive THEN {"ok"} ELSE {"lost", "disconnect", "error"}

\* Inside broadcast_online_users the bare except swallows whatever the send
\* raises, so only delivery or failure is left of the outcome.
BroadcastOutcome(w, c) == IF w[c].alive THEN "ok" ELSE "failed"

\* next() of the iterator over active_connections.items(): the size check,
\* the scan over dead slots, and the check for an entry beyond the count.
IterNext(ac, it) ==
    LET rest == {i \in it.pos..Len(ac) : ac[i].live} IN
    IF it.used # AcUsed(ac) THEN [kind |-> "size_changed", i |-> 0]
    ELSE IF rest = {} THEN [kind |-> "stop", i |-> 0]
    ELSE IF it.len = 0 THEN [kind |-> "keys_changed", i |-> 0]
    ELSE [kind |-> "item", i |-> Min(rest)]

NewIter(ac, snapshot, caller) ==
    [users |-> snapshot, pos |-> 1, len |-> AcUsed(ac), used |-> AcUsed(ac),
     caller |-> caller]

\* The loop without its try/except: what the send raises leaves the broadcast.
BroadcastStep_NoExcept(c, it, w, us, ac, before) ==
    LET r == IterNext(ac, it) IN
    IF r.kind = "item" /\ w[ac[r.i].ws].alive
    THEN /\ ws' = [w EXCEPT ![c].pc = "broadcasting"]
         /\ bcast' = [bcast EXCEPT ![c] = [it EXCEPT !.pos = r.i + 1,
                                                   !.len = it.len - 1]]
         /\ sent' = Append(before,
                [to |-> ac[r.i].ws,
                 frame |-> [type |-> "online_users", users |-> it.users,
                            current_user_id |-> UsGet(us, ac[r.i].sid)],
                 outcome |-> "ok"])
    ELSE IF r.kind = "stop"
    THEN /\ ws' = IF it.caller = "connect"
                  THEN [w EXCEPT ![c].pc = "open"]
                  ELSE [w EXCEPT ![c].pc = "closed", ![c].alive = FALSE]
         /\ bcast' = [bcast EXCEPT ![c] = NoBcast]
         /\ sent' = before
    ELSE /\ ws' = [w EXCEPT ![c].pc = "crashed", ![c].alive = FALSE,
                            ![c].code = 1011]
         /\ bcast' = [bcast EXCEPT ![c] = NoBcast]
         /\ sent' = IF r.kind = "item"
                    THEN Append(before,
                           [to |-> ac[r.i].ws,
                            frame |-> [type |-> "online_users", users |-> it.users,
                                       current_user_id |-> UsGet(us, ac[r.i].sid)],
                            outcome |-> "failed"])
                    ELSE before

\* One turn of the for loop of connection c's broadcast, up to the await of
\* send_text (whose exception, if any, the bare except swallows), or the end
\* of the broadcast.  w, us, ac are the dictionaries as the handler left
\* them in this step, before is what the step has sent already.
BroadcastStep(c, it, w, us, ac, before) ==
    LET r == IterNext(ac, it) IN
    IF r.kind = "item"
    THEN /\ ws' = [w EXCEPT ![c].pc = "broadcasting"]
         /\ bcast' = [bcast EXCEPT ![c] = [it EXCEPT !.pos = r.i + 1,
                                                   !.len = it.len - 1]]
         /\ sent' = Append(before,
                [to |-> ac[r.i].ws,
                 frame |-> OnlineUsersFrame(it.users, UsGet(us, ac[r.i].sid)),
                 outcome |-> BroadcastOutcome(w, ac[r.i].ws)])
    ELSE IF r.kind = "stop"
    THEN /\ ws' = IF it.caller = "connect"
                  THEN [w EXCEPT ![c].pc = "open"]
                  ELSE [w EXCEPT ![c].pc = "closed", ![c].alive = FALSE]
         /\ bcast' = [bcast EXCEPT ![c] = NoBcast]
         /\ sent' = before
    ELSE \* RuntimeError leaves broadcast_online_users and the handler
         /\ ws' = [w EXCEPT ![c].pc = "crashed", ![c].alive = FALSE,
                            ![c].code = 1011]
         /\ bcast' = [bcast EXCEPT ![c] = NoBcast]
         /\ sent' = before

\* ------------------------------------------------- websocket_endpoint
\* Connect without the session check of line 129.
Connect_NoSessionCheck(c, session_id) ==
    /\ ws[c].pc = "idle"
    /\ \A d \in Conns : d < c => ws[d].pc # "idle"
    /\ ws' = [ws EXCEPT ![c].pc = "accepting",
                        ![c].session_id = session_id,
                        ![c].user_id = UsGet(user_sessions, session_id),
                        ![c].username = "User_",
                        ![c].alive = TRUE]
    /\ sent' = <<>>
    /\ UNCHANGED <<users, user_sessions, user_names, active_connections,
                   nextSid, bcast>>

\* Lines 129-136: the session check, up to the await of close or accept.
\* Websocket objects are numbered in the order in which they are opened.
Connect(c, session_id) ==
    /\ ws[c].pc = "idle"
    /\ \A d \in Conns : d < c => ws[d].pc # "idle"
    /\ IF ~UsHas(user_sessions, session_id)
       THEN ws' = [ws EXCEPT ![c].pc = "refused", ![c].code = 4001,
                             ![c].session_id = session_id]
       ELSE LET user_id == UsGet(user_sessions, session_id) IN
            ws' = [ws EXCEPT ![c].pc = "accepting",
                             ![c].session_id = session_id,
                             ![c].user_id = user_id,
                             ![c].username = UnGet(user_names, user_id, "User_"),
                             ![c].alive = TRUE]
    /\ sent' = <<>>
    /\ UNCHANGED <<users, user_sessions, user_names, active_connections,
                   nextSid, bcast>>

\* Lines 137-140: accept has returned; register and start the broadcast.
Accepted(c) ==
    /\ ws[c].pc = "accepting"
    /\ LET ac == AcSet(active_connections, ws[c].session_id, c) IN
       /\ active_connections' = ac
       /\ BroadcastStep(c, NewIter(ac, online_users(user_names), "connect"),
                        ws, user_sessions, ac, <<>>)
    /\ UNCHANGED <<users, user_sessions, user_names, nextSid>>

\* A send_text of a broadcast has returned: the next turn of the loop.
BroadcastResume(c) ==
    /\ ws[c].pc = "broadcasting"
    /\ BroadcastStep(c, bcast[c], ws, user_sessions, active_connections, <<>>)
    /\ UNCHANGED <<users, user_sessions, user_names, active_connections, nextSid>>

\* A cleanup that, when the user's presence record is already gone, removes
\* the oldest record instead.
CleanupNames_DropOldest(un, user_id) ==
    IF UnHas(un, user_id) THEN UnDel(un, user_id) ELSE SubSeq(un, 2, Len(un))

\* A cleanup that leaves the session token in place.
CleanupSessions_Keep(us, session_id) == us

\* Lines 216-224: the except WebSocketDisconnect block of connection c.
CleanupSessions(us, session_id) == UsDel(us, session_id)
CleanupNames(un, user_id) == UnDel(un, user_id)
CleanupConnections(ac, session_id) == AcDel(ac, session_id)

Cleanup(c, w, before) ==
    LET ac == CleanupConnections(active_connections, ws[c].session_id)
        us == CleanupSessions(user_sessions, ws[c].session_id)
        un == CleanupNames(user_names, ws[c].user_id)
    IN /\ active_connections' = ac
       /\ user_sessions' = us
       /\ user_names' = un
       /\ BroadcastStep(c, NewIter(ac, online_users(un), "cleanup"), w, us, ac,
                        before)

\* The client side of c goes away (peer close or transport error) while the
\* handler waits in receive_text; the handler learns of it in Disconnected.
PeerClose(c) ==
    /\ ws[c].pc = "open"
    /\ ws[c].alive
    /\ ws' = [ws EXCEPT ![c].alive = FALSE]
    /\ sent' = <<>>
    /\ UNCHANGED <<users, user_sessions, user_names, active_connections,
                   nextSid, bcast>>

\* receive_text raises WebSocketDisconnect.
Disconnected(c) ==
    /\ ws[c].pc = "open"
    /\ ~ws[c].alive
    /\ Cleanup(c, ws, <<>>)
    /\ UNCHANGED <<users, nextSid>>


\* ------------------------------------------------- the receive loop
\* A receive loop with a sixth branch, which reads target_user_id as the
\* other five do.
Kinds_WithHello == {"call_user", "answer_call", "ice_candidate",
                    "call_declined", "call_ended", "hello"}

Kinds == {"call_user", "answer_call", "ice_candidate", "call_declined",
          "call_ended"}

\* The key of the payload a kind reads from the message, "" if it reads none.
PayloadKey(kind) ==
    CASE kind = "call_user" -> "offer"
      [] kind = "answer_call" -> "answer"
      [] kind = "ice_candidate" -> "candidate"
      [] OTHER -> ""

\* A relay that forwards one frame whatever message it received.
Forwarded_Fixed(c, m) == [type |-> "call_ended"]

\* The frame the handler of connection c forwards for message m.
Forwarded(c, m) ==
    CASE m.type = "call_user" ->
            [type |-> "incoming_call", from_user_id |-> ws[c].user_id,
             from_username |-> ws[c].username, offer |-> m.offer]
      [] m.type = "answer_call" -> [type |-> "call_answered", answer |-> m.answer]
      [] m.type = "ice_candidate" ->
            [type |-> "ice_candidate", candidate |-> m.candidate]
      [] m.type = "call_declined" -> [type |-> "call_declined", by |-> ws[c].user_id]
      [] m.type = "call_ended" -> [type |-> "call_ended"]

ErrorFrame == [type |-> "error", message |-> "user not found or disconnected"]

\* Texts a client may send: not JSON, JSON that is no object, and objects
\* with and without the keys the handler reads.
Object(fields) == [json |-> "object", fields |-> fields]
Inputs ==
    {[json |-> "invalid"], [json |-> "array"]}
    \cup {Object([type |-> "call_user", target_user_id |-> t, offer |-> o]) :
            t \in TargetIds, o \in Offers}
    \cup {Object([type |-> "answer_call", target_user_id |-> t, answer |-> "A1"]) :
            t \in TargetIds}
    \cup {Object([type |-> "ice_candidate", target_user_id |-> t, candidate |-> "K1"]) :
            t \in TargetIds}
    \cup {Object([type |-> k, target_user_id |-> t]) :
            k \in {"call_user", "call_declined", "call_ended"}, t \in TargetIds}
    \cup {Object([type |-> k]) : k \in {"call_user", "call_ended", "hello"}}
    \cup {Object([target_user_id |-> 1])}

\* The texts SpecRelay lets a client send: objects the handler ignores and
\* well-formed messages of three of the kinds.
RelayInputs ==
    {Object([type |-> "hello"]), Object([target_user_id |-> 1])}
    \cup {Object([type |-> "call_user", target_user_id |-> t, offer |-> "O1"]) :
            t \in TargetIds}
    \cup {Object([type |-> "answer_call", target_user_id |-> t, answer |-> "A1"]) :
            t \in TargetIds}
    \cup {Object([type |-> "call_ended", target_user_id |-> t]) : t \in TargetIds}

\* An exception other than WebSocketDisconnect leaves the handler: the except
\* block does not run and the server closes the channel.
Crash(c) ==
    /\ ws' = [ws EXCEPT ![c].pc = "crashed", ![c].alive = FALSE, ![c].code = 1011]
    /\ sent' = <<>>
    /\ UNCHANGED <<users, user_sessions, user_names, active_connections,
                   nextSid, bcast>>

\* Lines 144-214: one message of connection c, from receive_text to the next
\* receive_text.
Receive(c, data) ==
    /\ ws[c].pc = "open"
    /\ ws[c].alive
    /\ IF data.json # "object"
       THEN Crash(c)   \* json.loads raises, or the value has no get
       ELSE
       LET m == data.fields
           msg_type == IF "type" \in DOMAIN m THEN m.type ELSE ""
       IN
       IF msg_type \notin Kinds
       THEN /\ sent' = <<>>
            /\ UNCHANGED <<users, user_sessions, user_names,
                           active_connections, nextSid, ws, bcast>>
       ELSE IF "target_user_id" \notin DOMAIN m
       THEN Crash(c)   \* KeyError
       ELSE
       LET target_session ==
               find_user_session(user_sessions, active_connections,
                                 m.target_user_id)
           target == AcGet(active_connections, target_session)
       IN
       IF target_session # None
       THEN IF PayloadKey(msg_type) # "" /\ PayloadKey(msg_type) \notin DOMAIN m
            THEN Crash(c)   \* KeyError
            ELSE \E o \in SendOutcomes(ws, target) :
                 LET attempt == <<[to |-> target, frame |-> Forwarded(c, m),
                                   outcome |-> o]>>
                 IN
                 IF o = "disconnect"
                 THEN /\ Cleanup(c, ws, attempt)
                      /\ UNCHANGED <<users, nextSid>>
                 ELSE IF o = "error"
                 THEN /\ ws' = [ws EXCEPT ![c].pc = "crashed",
                                          ![c].alive = FALSE, ![c].code = 1011]
                      /\ sent' = attempt
                      /\ UNCHANGED <<users, user_sessions, user_names,
                                     active_connections, nextSid, bcast>>
                 ELSE /\ sent' = attempt
                      /\ UNCHANGED <<users, user_sessions, user_names,
                                     active_connections, nextSid, ws, bcast>>
       ELSE IF msg_type = "call_user"
       THEN /\ sent' = <<[to |-> c, frame |-> ErrorFrame, outcome |-> "ok"]>>
            /\ UNCHANGED <<users, user_sessions, user_names,
                           active_connections, nextSid, ws, bcast>>
       ELSE /\ sent' = <<>>
            /\ UNCHANGED <<users, user_sessions, user_names,
                           active_connections, nextSid, ws, bcast>>

\* ================================================================ claims
\* The handler of c has accepted the channel and still runs its connect
\* broadcast or its receive loop, and the client is still there.
Live(c) ==
    /\ ws[c].alive
    /\ \/ ws[c].pc = "open"
       \/ ws[c].pc = "broadcasting" /\ bcast[c].caller = "connect"

\* The spec's Open state: the handler waits in receive_text.
Open(c) == ws[c].pc = "open" /\ ws[c].alive

ListedIds(un) == {un[i].user_id : i \in 1..Len(un)}
LiveIds == {ws[c].user_id : c \in {d \in Conns : Live(d)}}

\* C1: the user ids the presence snapshot lists are exactly the user ids
\* that have a live connection.
C1_PresenceIffLive == ListedIds(online_users(user_names)) = LiveIds

\* C2: whenever the receive loop of an open connection exits, whatever the
\* reason, the cleanup has run: the connection's entry, its session token and
\* its presence record are gone and the cleanup broadcast has started.
C2_ExitRunsCleanup ==
    [][\A c \in Conns :
        (ws[c].pc = "open" /\ ws'[c].pc # "open")
        => /\ ~AcHas(active_connections', ws[c].session_id)
           /\ ~UsHas(user_sessions', ws[c].session_id)
           /\ ~UnHas(user_names', ws[c].user_id)
           /\ ws'[c].pc \in {"broadcasting", "closed"}]_vars

\* C3: opening a channel with a token that is not in the session registry
\* is refused with close code 4001, changes none of the three dictionaries,
\* sends nothing, and the channel is never accepted afterwards.
C3_UnknownTokenRefused ==
    [][\A c \in Conns :
        /\ (ws[c].pc = "idle" /\ ws'[c].pc # "idle"
            /\ ~UsHas(user_sessions, ws'[c].session_id))
           => /\ ws'[c].pc = "refused"
              /\ ws'[c].code = 4001
              /\ ~ws'[c].alive
              /\ UNCHANGED <<user_sessions, user_names, active_connections>>
              /\ sent' = <<>>
        /\ ws[c].pc = "refused" => ws'[c] = ws[c]]_vars

\* A channel was refused while another user was online.
C3_Witness ==
    \E c, d \in Conns :
        /\ ws[c].pc = "refused"
        /\ Open(d)
        /\ Len(user_names) > 0

\* The username the users table holds for a user id.
UsernameOf(uid) == users[uid].username

CallUser(target, offer) ==
    Object([type |-> "call_user", target_user_id |-> target, offer |-> offer])

\* C4: when connected user A sends call_user to a distinct connected user B
\* with offer o, exactly one frame is sent: an incoming_call on a channel of
\* B, carrying A's id, A's username and o; nothing goes to A or anyone else.
C4_CallReachesCallee ==
    [][\A a, b \in Conns, o \in Offers :
        (/\ Open(a) /\ Live(b) /\ ws[a].user_id # ws[b].user_id
         /\ Receive(a, CallUser(ws[b].user_id, o)))
        => \E d \in Conns :
             /\ Live(d) /\ ws[d].user_id = ws[b].user_id
             /\ sent' = <<[to |-> d,
                           frame |-> [type |-> "incoming_call",
                                      from_user_id |-> ws[a].user_id,
                                      from_username |-> UsernameOf(ws[a].user_id),
                                      offer |-> o],
                           outcome |-> "ok"]>>]_vars

\* Every channel a user ever had has ended: its handler returned or died.
Offline(uid) ==
    \A d \in Conns : ws[d].user_id = uid => ws[d].pc \in {"closed", "crashed"}

\* C5: when connected user A sends call_user targeting a user id that has no
\* live connection, exactly one frame is sent, the error frame on A's own
\* channel; A stays open and the three dictionaries are unchanged.
C5_OfflineTargetError ==
    [][\A a \in Conns, t \in TargetIds, o \in Offers :
        (Open(a) /\ Offline(t) /\ Receive(a, CallUser(t, o)))
        => /\ sent' = <<[to |-> a, frame |-> ErrorFrame, outcome |-> "ok"]>>
           /\ ws'[a] = ws[a]
           /\ UNCHANGED <<user_sessions, user_names, active_connections>>]_vars

\* C6: with A and B connected, after B's connection disconnects A is sent an
\* online_users snapshot that does not list B, and B's user id resolves to
\* no channel.  The snapshot reaches A through the broadcast of B's cleanup,
\* which sends to the registered channels only: the cleanup step leaves a
\* live channel of A registered, its snapshot does not list B, every frame
\* it sends carries that snapshot, and no session of B resolves afterwards.
C6_DisconnectSeenByPeer ==
    [][\A a, b \in Conns :
        (/\ Open(a)
         /\ ws[b].pc = "open" /\ ~ws[b].alive
         /\ ws'[b].pc \in {"broadcasting", "closed"}
         /\ ws[a].user_id # ws[b].user_id)
        => /\ \E d \in Conns :
                /\ Live(d) /\ ws[d].user_id = ws[a].user_id
                /\ AcGet(active_connections', ws[d].session_id) = d
           /\ ws[b].user_id \notin ListedIds(online_users(user_names'))
           /\ \A i \in 1..Len(sent') :
                sent'[i].frame = OnlineUsersFrame(online_users(user_names'),
                                                   ws[sent'[i].to].user_id)
           /\ find_user_session(user_sessions', active_connections',
                                ws[b].user_id) = None]_vars

\* C7: every online_users frame delivered to a connection carries as
\* current_user_id the user id of the session that connection was opened
\* with, never None, and the frames of one step carry one users list.
C7_FramePersonalised ==
    \A i \in 1..Len(sent) :
        (sent[i].frame.type = "online_users" /\ sent[i].outcome = "ok")
        => /\ sent[i].frame.current_user_id = ws[sent[i].to].user_id
           /\ sent[i].frame.current_user_id # None
           /\ \A j \in 1..Len(sent) :
                sent[j].frame.type = "online_users"
                => sent[j].frame.users = sent[i].frame.users

\* Texts the receive loop cannot handle: not JSON, JSON that is no object,
\* and objects of a handled kind that lack target_user_id or their payload.
Malformed(data) ==
    \/ data.json # "object"
    \/ /\ "type" \in DOMAIN data.fields
       /\ data.fields.type \in Kinds
       /\ \/ "target_user_id" \notin DOMAIN data.fields
          \/ /\ PayloadKey(data.fields.type) # ""
             /\ PayloadKey(data.fields.type) \notin DOMAIN data.fields

\* C8: a malformed inbound message is dropped without effect: the receiving
\* connection stays open and registered and nothing is sent.
C8_MalformedDropped ==
    [][\A c \in Conns, data \in Inputs :
        (Open(c) /\ Malformed(data) /\ Receive(c, data))
        => /\ ws'[c] = ws[c]
           /\ UNCHANGED <<user_sessions, user_names, active_connections>>
           /\ sent' = <<>>]_vars

\* The connection registered under a session of the user, for each of the
\* user's registered sessions.
RegisteredConns(uid) ==
    {active_connections[i].ws :
        i \in {j \in 1..Len(active_connections) :
                 /\ active_connections[j].live
                 /\ UsGet(user_sessions, active_connections[j].sid) = uid}}

\* The connection of the user that was registered last.
LastRegistered(uid) ==
    LET idx == {j \in 1..Len(active_connections) :
                  /\ active_connections[j].live
                  /\ UsGet(user_sessions, active_connections[j].sid) = uid}
    IN active_connections[CHOOSE j \in idx : \A k \in idx : k <= j].ws

\* C9: when a user id has two live registered connections, a message that
\* targets the user id is delivered to exactly one of them, the one that
\* was registered last.
C9_LastRegisteredWins ==
    [][\A a \in Conns, t \in TargetIds, o \in Offers :
        (/\ Open(a)
         /\ Cardinality(RegisteredConns(t)) = 2
         /\ \A d \in RegisteredConns(t) : Live(d)
         /\ Receive(a, CallUser(t, o)))
        => /\ Len(sent') = 1
           /\ sent'[1].to = LastRegistered(t)
           /\ sent'[1].outcome = "ok"]_vars

\* The step is a step of the handler of connection c (a step changes the
\* record of one connection only) and its last send is a broadcast frame.
SentInBroadcast(c) ==
    /\ ws'[c] # ws[c] \/ bcast'[c] # bcast[c]
    /\ Len(sent') > 0
    /\ sent'[Len(sent')].frame.type = "online_users"

\* The live slots of active_connections at or after position pos.
SlotsFrom(pos) ==
    {i \in pos..Len(active_connections) : active_connections[i].live}

\* C10: a failed send inside a broadcast does not raise out of it (the
\* handler is still in its broadcast after the failure), and a broadcast
\* whose dictionary was not resized goes on to the next registered
\* connection, whose frame carries the snapshot of this same broadcast and
\* is delivered if that connection is alive.
C10_FailedSendContained ==
    [][\A c \in Conns :
        /\ (SentInBroadcast(c) /\ sent'[Len(sent')].outcome = "failed")
           => ws'[c].pc = "broadcasting"
        /\ (/\ ws[c].pc = "broadcasting"
            /\ bcast'[c] # bcast[c]
            /\ bcast[c].used = AcUsed(active_connections)
            /\ bcast[c].len > 0
            /\ SlotsFrom(bcast[c].pos) # {})
           => LET next == active_connections[Min(SlotsFrom(bcast[c].pos))].ws
              IN /\ Len(sent') = 1
                 /\ sent'[1].to = next
                 /\ sent'[1].frame.type = "online_users"
                 /\ sent'[1].frame.users = bcast[c].users
                 /\ sent'[1].outcome = IF ws[next].alive THEN "ok" ELSE "failed"
                 /\ ws'[c].pc = "broadcasting"]_vars

\* A send of a broadcast has just failed, the broadcast is still running,
\* and a connection that is alive is still ahead of it.
C10_Witness ==
    \E c \in Conns :
        /\ ws[c].pc = "broadcasting"
        /\ Len(sent) = 1
        /\ sent[1].outcome = "failed"
        /\ active_connections[bcast[c].pos - 1].ws = sent[1].to
        /\ bcast[c].used = AcUsed(active_connections)
        /\ \E i \in SlotsFrom(bcast[c].pos) :
             ws[active_connections[i].ws].alive

\* No other channel was ever opened with the token of connection c.
SoleUseOfToken(c) ==
    \A d \in Conns : d # c => ws[d].session_id # ws[c].session_id

\* C11: when a channel is accepted for a session token (a token that is still
\* in the session registry and that no other channel has used), the user's
\* presence record exists, the connect broadcast starts, and the snapshot it
\* sends lists the newly connected user; also when the user connects with a
\* second session after an earlier session disconnected.
C11_ConnectAnnounced ==
    [][\A c \in Conns :
        (/\ ws[c].pc = "accepting" /\ ws'[c].pc # "accepting"
         /\ UsHas(user_sessions, ws[c].session_id)
         /\ SoleUseOfToken(c))
        => /\ UnHas(user_names', ws[c].user_id)
           /\ ws'[c].pc = "broadcasting"
           /\ ws[c].user_id \in ListedIds(bcast'[c].users)]_vars

\* The four kinds that are relayed without an error reply.
SilentKinds == {"answer_call", "ice_candidate", "call_declined", "call_ended"}

\* A well-formed message of one of these kinds, and the frame the target is
\* to get for it from a sender with the given user id.
RelayMessage(kind, target) ==
    CASE kind = "answer_call" ->
            Object([type |-> kind, target_user_id |-> target, answer |-> "A1"])
      [] kind = "ice_candidate" ->
            Object([type |-> kind, target_user_id |-> target, candidate |-> "K1"])
      [] OTHER -> Object([type |-> kind, target_user_id |-> target])

ReshapedFrame(kind, sender_id) ==
    CASE kind = "answer_call" -> [type |-> "call_answered", answer |-> "A1"]
      [] kind = "ice_candidate" -> [type |-> "ice_candidate", candidate |-> "K1"]
      [] kind = "call_declined" -> [type |-> "call_declined", by |-> sender_id]
      [] OTHER -> [type |-> "call_ended"]

\* Some channel of the user is live.
Online(uid) == \E d \in Conns : Live(d) /\ ws[d].user_id = uid

\* C12: for answer_call, ice_candidate, call_declined and call_ended sent by
\* a connected user with the target_user_id of another user: if the target
\* has a live connection, exactly one reshaped frame is sent, on a live channel of the
\* target; if the target is offline, nothing is sent and the sender's
\* connection is unchanged.
C12_SilentKindsRelayed ==
    [][\A a \in Conns, kind \in SilentKinds, t \in TargetIds :
        (Open(a) /\ ws[a].user_id # t /\ Receive(a, RelayMessage(kind, t)))
        => /\ Online(t)
              => \E d \in Conns :
                   /\ Live(d) /\ ws[d].user_id = t
                   /\ sent' = <<[to |-> d,
                                 frame |-> ReshapedFrame(kind, ws[a].user_id),
                                 outcome |-> "ok"]>>
           /\ Offline(t)
              => /\ sent' = <<>>
                 /\ ws'[a] = ws[a]]_vars

\* A JSON object whose type is none of the five kinds of the protocol, or
\* that has no type at all.
Unhandled(data) ==
    /\ data.json = "object"
    /\ \/ "type" \notin DOMAIN data.fields
       \/ data.fields.type \notin {"call_user"} \cup SilentKinds

\* C13: a well-formed message whose type is none of the five handled kinds
\* is ignored: nothing is sent, the three dictionaries are unchanged, no
\* connection changes, and the sender's connection is still open in its
\* receive loop.
C13_UnknownTypeIgnored ==
    [][\A c \in Conns, data \in Inputs \cup RelayInputs :
        (Open(c) /\ Unhandled(data) /\ Receive(c, data))
        => /\ sent' = <<>>
           /\ UNCHANGED <<user_sessions, user_names, active_connections>>
           /\ ws' = ws /\ bcast' = bcast
           /\ ws'[c].pc = "open" /\ ws'[c].alive]_vars

\* A connection ignored a message of an unknown type while another
\* connection was there to be sent to, and afterwards received a call_user
\* and relayed it to that connection.
C13_Witness ==
    \E i, j \in 1..Len(handled), d \in Conns :
        /\ i < j
        /\ handled[i].conn = handled[j].conn
        /\ d # handled[i].conn
        /\ Unhandled(handled[i].data)
        /\ "type" \in DOMAIN handled[i].data.fields
        /\ handled[i].sent = <<>>
        /\ "type" \in DOMAIN handled[j].data.fields
        /\ handled[j].data.fields.type = "call_user"
        /\ Len(handled[j].sent) = 1
        /\ handled[j].sent[1].to = d
        /\ handled[j].sent[1].outcome = "ok"
        /\ Open(handled[i].conn) /\ Open(d)
        /\ ws[d].user_id # ws[handled[i].conn].user_id

\* The handling of the i-th handled message forwarded a frame: the message
\* is of one of the five kinds and its target resolved to a channel.
Relayed(i) ==
    /\ "type" \in DOMAIN handled[i].data.fields
    /\ handled[i].data.fields.type \in {"call_user"} \cup SilentKinds
    /\ Len(handled[i].sent) > 0
    /\ handled[i].sent[1].frame.type # "error"

\* The type of the frame a message of a kind is forwarded as.
ForwardedType(kind) ==
    CASE kind = "call_user" -> "incoming_call"
      [] kind = "answer_call" -> "call_answered"
      [] OTHER -> kind

CleanedUp(w, b, c) ==
    \/ w[c].pc = "closed"
    \/ w[c].pc = "broadcasting" /\ b[c].caller = "cleanup"

\* C15: once the cleanup of a disconnected connection has run, its session
\* token is not in the session registry and never comes back; an attempt to
\* open a channel with it is refused with 4001; and a token enters the
\* registry only by a login, which issues a token that no accepted
\* connection has used.
C15_TokenDiesWithConnection ==
    [][/\ \A c \in Conns :
            CleanedUp(ws', bcast', c) => ~UsHas(user_sessions', ws'[c].session_id)
       /\ \A c, d \in Conns :
            (/\ CleanedUp(ws, bcast, c)
             /\ ws[d].pc = "idle" /\ ws'[d].pc # "idle"
             /\ ws'[d].session_id = ws[c].session_id)
            => /\ ws'[d].pc = "refused" /\ ws'[d].code = 4001
               /\ ~ws'[d].alive
               /\ UNCHANGED <<user_sessions, user_names, active_connections>>
       /\ \A sid \in Tokens :
            (~UsHas(user_sessions, sid) /\ UsHas(user_sessions', sid))
            => /\ sid = nextSid /\ nextSid' = nextSid + 1
               /\ \A c \in Conns :
                    ws[c].pc \notin {"idle", "refused"}
                    => ws[c].session_id # sid]_vars

\* A connection was closed by its peer and cleaned up, and a later channel
\* opened with its token (by then used by no other channel) was refused.
C15_Witness ==
    \E c, d \in Conns :
        /\ c < d
        /\ ws[c].pc = "closed"
        /\ ws[c].session_id # None
        /\ ws[d].pc = "refused" /\ ws[d].code = 4001
        /\ ws[d].session_id = ws[c].session_id
        /\ \A e \in Conns \ {c, d} : ws[e].session_id # ws[c].session_id

Range(seq) == {seq[i] : i \in 1..Len(seq)}

\* C16: when the cleanup of a connection has run, running it again for the
\* same session token and user id finds none of its three keys (so each del
\* is skipped by its test and nothing raises) and leaves the session
\* registry, the connection map and the presence records as the first run
\* left them; and the first run removed no entry of a different user.
C16_CleanupIdempotent ==
    [][\A c \in Conns :
        (~CleanedUp(ws, bcast, c) /\ CleanedUp(ws', bcast', c))
        => LET sid == ws[c].session_id
               uid == ws[c].user_id
           IN /\ ~AcHas(active_connections', sid)
              /\ ~UsHas(user_sessions', sid)
              /\ ~UnHas(user_names', uid)
              /\ CleanupConnections(active_connections', sid) = active_connections'
              /\ CleanupSessions(user_sessions', sid) = user_sessions'
              /\ CleanupNames(user_names', uid) = user_names'
              /\ \A e \in Range(user_sessions) :
                   e.uid # uid => e \in Range(user_sessions')
              /\ \A e \in Range(user_names) :
                   e.user_id # uid => e \in Range(user_names')
              /\ \A i \in 1..Len(active_connections) :
                   (/\ active_connections[i].live
                    /\ ws[active_connections[i].ws].user_id # uid)
                   => active_connections'[i] = active_connections[i]]_vars

\* The cleanup of a connection has just run while another user was logged
\* in, listed and connected.
C16_Witness ==
    \E c, d \in Conns :
        /\ ws[c].pc = "broadcasting" /\ bcast[c].caller = "cleanup"
        /\ Open(d) /\ ws[d].user_id # ws[c].user_id
        /\ AcGet(active_connections, ws[d].session_id) = d
        /\ UsHas(user_sessions, ws[d].session_id)
        /\ UnHas(user_names, ws[d].user_id)
        /\ ~UsHas(user_sessions, ws[c].session_id)
        /\ ~UnHas(user_names, ws[c].user_id)

C18_FailedForwardContained ==
    [][\A a \in Conns, data \in Inputs :
        (/\ Open(a) /\ Receive(a, data)
         /\ Len(sent') > 0
         /\ sent'[1].outcome # "ok"
         /\ ws[sent'[1].to].user_id # ws[a].user_id)
        => /\ ws'[a] = ws[a]
           /\ UNCHANGED <<user_sessions, user_names, active_connections>>
           /\ \A i \in 2..Len(sent') : sent'[i].frame # sent'[1].frame]_vars

\* C19: a broadcast that is suspended in a send completes without raising
\* whatever was accepted or cleaned up meanwhile: when it resumes it either
\* sends to the next connection or ends, returning to the connect path (the
\* handler enters its receive loop) or to the cleanup path (the handler
\* returns); it never takes its handler down.
C19_BroadcastOverSnapshot ==
    [][\A c \in Conns :
        ws[c].pc = "broadcasting"
        => \/ ws'[c].pc = "broadcasting"
           \/ ws'[c].pc = "open" /\ bcast[c].caller = "connect"
           \/ ws'[c].pc = "closed" /\ bcast[c].caller = "cleanup"]_vars

\* C20: every connection that has been accepted and has not yet closed is
\* the channel registered in the connection map under its session token,
\* and that token is in the session registry.
C20_AcceptedIsRegistered ==
    \A c \in Conns :
        Live(c)
        => /\ AcGet(active_connections, ws[c].session_id) = c
           /\ UsHas(user_sessions, ws[c].session_id)

Next ==
    \/ \E u \in Usernames, p \in Passwords : register(u, p) /\ UNCHANGED handled
    \/ \E u \in Usernames, p \in Passwords : login(u, p) /\ UNCHANGED handled
    \/ \E c \in Conns, t \in Tokens : Connect(c, t) /\ UNCHANGED handled
    \/ \E c \in Conns : Accepted(c) /\ UNCHANGED handled
    \/ \E c \in Conns : BroadcastResume(c) /\ UNCHANGED handled
    \/ \E c \in Conns : PeerClose(c) /\ UNCHANGED handled
    \/ \E c \in Conns : Disconnected(c) /\ UNCHANGED handled
    \/ \E c \in Conns, data \in Inputs : Receive(c, data) /\ UNCHANGED handled

Spec == Init /\ [][Next]_vars

\* The same handlers on MaxRelayConns connections, with a record of what the
\* receive loops did: handled lists, in the order in which they were
\* received, the messages the receive loops have handled, each with the
\* connection that received it and the frames its handling sent.  Spec
\* leaves handled empty.
NextRelay ==
    \/ \E u \in Usernames, p \in Passwords : register(u, p) /\ UNCHANGED handled
    \/ \E u \in Usernames, p \in Passwords : login(u, p) /\ UNCHANGED handled
    \/ \E c \in RelayConns, t \in Tokens : Connect(c, t) /\ UNCHANGED handled
    \/ \E c \in RelayConns : Accepted(c) /\ UNCHANGED handled
    \/ \E c \in RelayConns : BroadcastResume(c) /\ UNCHANGED handled
    \/ \E c \in RelayConns : PeerClose(c) /\ UNCHANGED handled
    \/ \E c \in RelayConns : Disconnected(c) /\ UNCHANGED handled
    \/ \E c \in RelayConns, data \in RelayInputs :
          /\ Len(handled) < MaxHandled
          /\ Receive(c, data)
          /\ handled' = Append(handled,
                               [conn |-> c, data |-> data, sent |-> sent'])

SpecRelay == Init /\ [][NextRelay]_vars
====
